---- MODULE Spec2Model ----
(***************************************************************************)
(* pretty_logger: the colorizing formatter (ColoredFormatter.format) and   *)
(* the logger provisioner (get_logger) of src/pretty_logger.py, with the   *)
(* logging registry, the log directory and the rotating file sink they     *)
(* configure.                                                              *)
(***************************************************************************)
EXTENDS Integers, Sequences, FiniteSets, TLC

\* ------------------------------------------------------------------------
\* Levels of the logging primitive
\* ------------------------------------------------------------------------
NOTSET == 0
DEBUG == 10
INFO == 20
WARNING == 30
ERROR == 40
CRITICAL == 50

Levels == {DEBUG, INFO, WARNING, ERROR, CRITICAL}

\* ------------------------------------------------------------------------
\* Bounds and input sets
\* ------------------------------------------------------------------------
Ids == {"app", "worker"}          \* caller names (file names without .py)
Threads == {"t1", "t2"}           \* threads that call get_logger
LOG_DIR == "logs"
Dirs == {LOG_DIR, "alt"}          \* log_dir arguments
DefaultBackupCount == 30
\* the arguments of a call: the defaults, or a directory and count of the caller's
CallArgs == {<<LOG_DIR, DefaultBackupCount>>, <<"alt", 1>>}
MaxCalls == 3                     \* get_logger calls started in one run
MaxDay == 3                       \* midnights crossed in one run
MaxRecords == 4                   \* records written to the file sinks
MaxBackup == 2                    \* largest backup_count of the rotation runs
Days == 0..MaxDay

VARIABLES
    \* the logging registry: one logger per identity
    level, propagate, handlers,
    rootHandlers,                 \* number of handlers on the root logger
    dirs,                         \* log directories that exist
    \* get_logger in each thread
    \* get_logger in each thread; loc.found: the logger carried sinks when the
    \* call began or when it looked
    pc, loc,
    \* history of the run
    calls, failed, overlap, returned,
    lastEmit,
    \* the file sinks at work: the clock, each sink's open stream (an inode)
    \* and next rollover day, and the log directories' files
    today, stream, rolloverAt,
    base,                         \* [dir -> inode of applog.log, 0: absent]
    rotated,                      \* [dir -> [day suffix -> inode, 0: absent]]
    content,                      \* inode -> the records written to it
    retired,                      \* inodes the retention policy deleted
    nrec,                         \* records emitted so far: 1..nrec
    \* the formatter: the record handed to it and what format gave
    rec, out

provVars == <<level, propagate, handlers, rootHandlers, dirs, pc, loc,
              calls, failed, overlap, returned, lastEmit>>

rotVars == <<today, stream, rolloverAt, base, rotated, content, retired, nrec>>

fmtVars == <<rec, out>>

vars == <<provVars, rotVars, fmtVars>>

\* ------------------------------------------------------------------------
\* Handlers (sinks)
\* ------------------------------------------------------------------------
ConsoleHandler ==
    [kind |-> "console", lvl |-> DEBUG, fmt |-> "ColoredFormatter",
     dir |-> "stdout", backupCount |-> 0]

FileHandler(d, n) ==
    [kind |-> "file", lvl |-> DEBUG, fmt |-> "plain",
     dir |-> d, backupCount |-> n]

\* a handler some other code attached to the logger before get_logger
ForeignHandler ==
    [kind |-> "foreign", lvl |-> WARNING, fmt |-> "other",
     dir |-> "stderr", backupCount |-> 0]

RECURSIVE CountKind(_, _)
CountKind(hs, k) ==
    IF hs = <<>> THEN 0
    ELSE (IF Head(hs).kind = k THEN 1 ELSE 0) + CountKind(Tail(hs), k)

\* the locals of a thread that is not inside get_logger
NoLocals ==
    [id |-> "none", dir |-> LOG_DIR, bc |-> DefaultBackupCount, found |-> FALSE]

InCall(t) == pc[t] # "idle"

Busy(i) == \E t \in Threads : InCall(t) /\ loc[t].id = i

NoEmit == [id |-> "none", lvl |-> NOTSET, console |-> 0, file |-> 0, root |-> 0]

\* what format has given: nothing yet, or the exception it raised
Unformatted == <<"unformatted">>
Raised == <<"TypeError">>

\* no record is being formatted
FmtIdle ==
    /\ rec = [levelno |-> NOTSET, msgOk |-> TRUE, exc_info |-> FALSE,
              stack_info |-> FALSE]
    /\ out = Unformatted

\* no file sink is at work
RotIdle ==
    /\ today = 0
    /\ stream = [i \in Ids |-> 0]
    /\ rolloverAt = [i \in Ids |-> 0]
    /\ base = [d \in Dirs |-> 0]
    /\ rotated = [d \in Dirs |-> [k \in Days |-> 0]]
    /\ content = <<>>
    /\ retired = {}
    /\ nrec = 0

InitProv ==
    /\ level = [i \in Ids |-> NOTSET]
    /\ propagate = [i \in Ids |-> TRUE]
    /\ handlers \in [Ids -> {<<>>, <<ForeignHandler>>}]
    /\ rootHandlers \in {0, 1}
    /\ dirs \in SUBSET Dirs
    /\ pc = [t \in Threads |-> "idle"]
    /\ loc = [t \in Threads |-> NoLocals]
    /\ calls = 0
    /\ failed = [i \in Ids |-> FALSE]
    /\ overlap = [i \in Ids |-> FALSE]
    /\ returned = [i \in Ids |-> 0]
    /\ lastEmit = NoEmit

\* ------------------------------------------------------------------------
\* get_logger, statement by statement
\* ------------------------------------------------------------------------

\* lines 77-82: the caller's name, logging.getLogger(name), setLevel(DEBUG)
Call(t, i, d, n) ==
    /\ pc[t] = "idle"
    /\ calls < MaxCalls
    /\ calls' = calls + 1
    /\ loc' = [loc EXCEPT ![t] = [id |-> i, dir |-> d, bc |-> n,
                                  found |-> handlers[i] # <<>>]]
    /\ level' = [level EXCEPT ![i] = DEBUG]
    /\ overlap' = [overlap EXCEPT ![i] = overlap[i] \/ Busy(i)]
    /\ pc' = [pc EXCEPT ![t] = "check"]
    /\ UNCHANGED <<propagate, handlers, rootHandlers, dirs, failed, returned,
                   lastEmit>>
    /\ UNCHANGED <<rotVars, fmtVars>>

\* the check of line 85 left out: every call attaches
HandlersEmptyAlways(hs) == TRUE

\* line 85: if not logger.handlers
HandlersEmpty(hs) == hs = <<>>

CheckHandlers(t) ==
    /\ pc[t] = "check"
    /\ IF HandlersEmpty(handlers[loc[t].id])
       THEN pc' = [pc EXCEPT ![t] = "exists"]
       ELSE pc' = [pc EXCEPT ![t] = "propagate"]
    /\ loc' = [loc EXCEPT ![t].found = handlers[loc[t].id] # <<>>]
    /\ UNCHANGED <<level, propagate, handlers, rootHandlers, dirs,
                   calls, failed, overlap, returned, lastEmit>>
    /\ UNCHANGED <<rotVars, fmtVars>>

\* line 87: if not os.path.exists(log_dir)
CheckDir(t) ==
    /\ pc[t] = "exists"
    /\ pc' = [pc EXCEPT ![t] = IF loc[t].dir \in dirs THEN "console" ELSE "makedirs"]
    /\ UNCHANGED <<level, propagate, handlers, rootHandlers, dirs, loc,
                   calls, failed, overlap, returned, lastEmit>>
    /\ UNCHANGED <<rotVars, fmtVars>>

\* an exception leaves get_logger: the call ends without a logger
Raise(t) ==
    /\ pc' = [pc EXCEPT ![t] = "idle"]
    /\ loc' = [loc EXCEPT ![t] = NoLocals]
    /\ failed' = [failed EXCEPT ![loc[t].id] = TRUE]

\* line 88: os.makedirs(log_dir), without exist_ok: FileExistsError when the
\* directory is there, and any other OSError the filesystem gives
MakeDirs(t) ==
    /\ pc[t] = "makedirs"
    /\ IF loc[t].dir \in dirs
       THEN /\ Raise(t)
            /\ dirs' = dirs
       ELSE \/ /\ dirs' = dirs \cup {loc[t].dir}
               /\ pc' = [pc EXCEPT ![t] = "console"]
               /\ UNCHANGED <<loc, failed>>
            \/ /\ Raise(t)
               /\ dirs' = dirs
    /\ UNCHANGED <<level, propagate, handlers, rootHandlers,
                   calls, overlap, returned, lastEmit>>
    /\ UNCHANGED <<rotVars, fmtVars>>

\* lines 91-94: the console handler
AddConsole(t) ==
    /\ pc[t] = "console"
    /\ handlers' = [handlers EXCEPT ![loc[t].id] = Append(@, ConsoleHandler)]
    /\ pc' = [pc EXCEPT ![t] = "file"]
    /\ UNCHANGED <<level, propagate, rootHandlers, dirs, loc,
                   calls, failed, overlap, returned, lastEmit>>
    /\ UNCHANGED <<rotVars, fmtVars>>

\* lines 97-116: the rotating file handler; its constructor opens
\* <log_dir>/applog.log for append and may fail
AddFile(t) ==
    /\ pc[t] = "file"
    /\ \/ /\ loc[t].dir \in dirs
          /\ handlers' = [handlers EXCEPT ![loc[t].id] =
                              Append(@, FileHandler(loc[t].dir, loc[t].bc))]
          /\ pc' = [pc EXCEPT ![t] = "propagate"]
          /\ UNCHANGED <<loc, failed>>
       \/ /\ Raise(t)
          /\ handlers' = handlers
    /\ UNCHANGED <<level, propagate, rootHandlers, dirs,
                   calls, overlap, returned, lastEmit>>
    /\ UNCHANGED <<rotVars, fmtVars>>

\* the return without line 119
ReturnKeepPropagate(t) ==
    /\ pc[t] = "propagate"
    /\ pc' = [pc EXCEPT ![t] = "idle"]
    /\ loc' = [loc EXCEPT ![t] = NoLocals]
    /\ returned' = [returned EXCEPT ![loc[t].id] = @ + 1]
    /\ UNCHANGED <<level, propagate, handlers, rootHandlers, dirs, calls, failed,
                   overlap, lastEmit>>
    /\ UNCHANGED <<rotVars, fmtVars>>

\* lines 119-121: logger.propagate = False; return logger
Return(t) ==
    /\ pc[t] = "propagate"
    /\ propagate' = [propagate EXCEPT ![loc[t].id] = FALSE]
    /\ pc' = [pc EXCEPT ![t] = "idle"]
    /\ loc' = [loc EXCEPT ![t] = NoLocals]
    /\ returned' = [returned EXCEPT ![loc[t].id] = @ + 1]
    /\ UNCHANGED <<level, handlers, rootHandlers, dirs, calls, failed, overlap,
                   lastEmit>>
    /\ UNCHANGED <<rotVars, fmtVars>>

\* ------------------------------------------------------------------------
\* The caller, between calls of get_logger
\* ------------------------------------------------------------------------
CallerSetLevel(i) ==
    /\ returned[i] > 0 /\ ~Busy(i)
    /\ level[i] # WARNING
    /\ level' = [level EXCEPT ![i] = WARNING]
    /\ UNCHANGED <<propagate, handlers, rootHandlers, dirs, pc, loc,
                   calls, failed, overlap, returned, lastEmit>>
    /\ UNCHANGED <<rotVars, fmtVars>>

CallerSetPropagate(i) ==
    /\ returned[i] > 0 /\ ~Busy(i)
    /\ ~propagate[i]
    /\ propagate' = [propagate EXCEPT ![i] = TRUE]
    /\ UNCHANGED <<level, handlers, rootHandlers, dirs, pc, loc,
                   calls, failed, overlap, returned, lastEmit>>
    /\ UNCHANGED <<rotVars, fmtVars>>

\* logger.debug / info / warning / error / critical: Logger.isEnabledFor,
\* then Logger.callHandlers over the logger's handlers and, when it
\* propagates, over the root's
RECURSIVE Handled(_, _, _)
Handled(hs, k, lv) ==
    IF hs = <<>> THEN 0
    ELSE (IF Head(hs).kind = k /\ lv >= Head(hs).lvl THEN 1 ELSE 0)
         + Handled(Tail(hs), k, lv)

Deliver(i, lv) ==
    IF lv < level[i]
    THEN [id |-> i, lvl |-> lv, console |-> 0, file |-> 0, root |-> 0]
    ELSE [id |-> i, lvl |-> lv,
          console |-> Handled(handlers[i], "console", lv),
          file |-> Handled(handlers[i], "file", lv),
          root |-> IF propagate[i] THEN rootHandlers ELSE 0]

Emit(i, lv) ==
    /\ returned[i] > 0
    /\ lastEmit' = Deliver(i, lv)
    /\ UNCHANGED <<level, propagate, handlers, rootHandlers, dirs, pc, loc,
                   calls, failed, overlap, returned>>
    /\ UNCHANGED <<rotVars, fmtVars>>

\* ------------------------------------------------------------------------
\* The rotating file sinks at work (TimedRotatingFileHandler as lines 100-106
\* configure it: when="midnight", interval=1, backupCount=backup_count)
\* ------------------------------------------------------------------------

\* the file sink get_logger attached to logger i
FileSink(i) == handlers[i][2]

UsedDirs == {FileSink(i).dir : i \in Ids}

\* the inode of applog.log in each directory in use, as the sinks open it
FirstInode ==
    CHOOSE f \in [UsedDirs -> 1..Cardinality(UsedDirs)] :
        \A d, e \in UsedDirs : d # e => f[d] # f[e]

\* day 0, after get_logger has returned once for every identity, each with
\* its own log_dir and backup_count; the sinks open <log_dir>/applog.log
\* and will roll over at the next midnight
InitRot ==
    /\ handlers \in [Ids -> {<<ConsoleHandler, FileHandler(d, n)>> :
                                 d \in Dirs, n \in 0..MaxBackup}]
    /\ level = [i \in Ids |-> DEBUG]
    /\ propagate = [i \in Ids |-> FALSE]
    /\ rootHandlers = 1
    /\ dirs = UsedDirs
    /\ pc = [t \in Threads |-> "idle"]
    /\ loc = [t \in Threads |-> NoLocals]
    /\ calls = Cardinality(Ids)
    /\ failed = [i \in Ids |-> FALSE]
    /\ overlap = [i \in Ids |-> FALSE]
    /\ returned = [i \in Ids |-> 1]
    /\ lastEmit = NoEmit
    /\ today = 0
    /\ stream = [i \in Ids |-> FirstInode[FileSink(i).dir]]
    /\ rolloverAt = [i \in Ids |-> 1]
    /\ base = [d \in Dirs |-> IF d \in UsedDirs THEN FirstInode[d] ELSE 0]
    /\ rotated = [d \in Dirs |-> [k \in Days |-> 0]]
    /\ content = [k \in 1..Cardinality(UsedDirs) |-> <<>>]
    /\ retired = {}
    /\ nrec = 0
    /\ FmtIdle

\* local midnight passes
Midnight ==
    /\ today < MaxDay
    /\ today' = today + 1
    /\ UNCHANGED <<stream, rolloverAt, base, rotated, content, retired, nrec>>
    /\ UNCHANGED <<provVars, fmtVars>>

\* shouldRollover: the clock has reached the sink's rollover time
ShouldRollover(i) == today >= rolloverAt[i]

\* getFilesToDelete: of the rotated files present (rot: day suffix -> inode),
\* all but the n with the latest suffixes; none when fewer than n are present
FilesToDelete(rot, n) ==
    LET present == {k \in Days : rot[k] # 0}
        excess == Cardinality(present) - n
    IN  IF Cardinality(present) < n THEN {}
        ELSE {k \in present : Cardinality({j \in present : j < k}) < excess}

\* doRollover for sink i: the stream is closed; the file named for the day
\* the interval began is removed if it is there and applog.log renamed to
\* it; with backupCount > 0 the files getFilesToDelete names are removed;
\* applog.log is opened anew. The directory's files, the stream and the
\* inodes after it.
DoRollover(i) ==
    LET d == FileSink(i).dir
        n == FileSink(i).backupCount
        dfn == rolloverAt[i] - 1
        renamed == [rotated[d] EXCEPT ![dfn] = base[d]]
        del == IF n > 0 THEN FilesToDelete(renamed, n) ELSE {}
        fresh == Len(content) + 1
    IN  [rotated |-> [k \in Days |-> IF k \in del THEN 0 ELSE renamed[k]],
         retired |-> retired \cup {renamed[k] : k \in del},
         base |-> fresh,
         stream |-> fresh,
         content |-> Append(content, <<>>)]

\* FileHandler.emit for one record, under the handler's lock: the rollover
\* check, the rollover when it is due, then the write to the open stream
EmitFile(i) ==
    /\ nrec < MaxRecords
    /\ nrec' = nrec + 1
    /\ LET d == FileSink(i).dir
           r == DoRollover(i)
       IN  IF ShouldRollover(i)
           THEN /\ rotated' = [rotated EXCEPT ![d] = r.rotated]
                /\ retired' = r.retired
                /\ base' = [base EXCEPT ![d] = r.base]
                /\ stream' = [stream EXCEPT ![i] = r.stream]
                /\ rolloverAt' = [rolloverAt EXCEPT ![i] = today + 1]
                /\ content' = [r.content EXCEPT ![r.stream] = Append(@, nrec + 1)]
           ELSE /\ content' = [content EXCEPT ![stream[i]] = Append(@, nrec + 1)]
                /\ UNCHANGED <<rotated, retired, base, stream, rolloverAt>>
    /\ today' = today
    /\ UNCHANGED <<provVars, fmtVars>>

NextRot ==
    \/ Midnight
    \/ \E i \in Ids : EmitFile(i)

SpecRot == InitRot /\ [][NextRot]_vars

\* ------------------------------------------------------------------------
\* ColoredFormatter
\* ------------------------------------------------------------------------
\* Text is a sequence of pieces: an ANSI code, a character of the level name,
\* or a whole field of the record (its time, file name, line, message, trace)
RESET == <<"ESC[0m">>
BOLD == <<"ESC[1m">>
CYAN == <<"ESC[96m">>
GREEN == <<"ESC[92m">>
YELLOW == <<"ESC[93m">>
RED == <<"ESC[91m">>
MAGENTA == <<"ESC[95m">>
GRAY == <<"ESC[90m">>

LevelWidth == 8

\* the levelno of the records: the five levels, and three no name is
\* registered for
LevelNos == Levels \cup {5, 25, 100}

\* record.levelname, as logging.getLevelName gives it
LevelName(n) ==
    CASE n = DEBUG -> <<"D", "E", "B", "U", "G">>
      [] n = INFO -> <<"I", "N", "F", "O">>
      [] n = WARNING -> <<"W", "A", "R", "N", "I", "N", "G">>
      [] n = ERROR -> <<"E", "R", "R", "O", "R">>
      [] n = CRITICAL -> <<"C", "R", "I", "T", "I", "C", "A", "L">>
      [] n = 5 -> <<"L", "e", "v", "e", "l", " ", "5">>
      [] n = 25 -> <<"L", "e", "v", "e", "l", " ", "2", "5">>
      [] n = 100 -> <<"L", "e", "v", "e", "l", " ", "1", "0", "0">>

\* a LogRecord: msgOk says whether msg % args can be formed; exc_info and
\* stack_info say whether the record carries a trace of each kind
Records ==
    [levelno : LevelNos, msgOk : BOOLEAN, exc_info : BOOLEAN, stack_info : BOOLEAN]

\* LEVEL_COLORS.get(record.levelno, self.GREEN)
LevelColor(n) ==
    CASE n = DEBUG -> CYAN
      [] n = INFO -> GREEN
      [] n = WARNING -> YELLOW
      [] n = ERROR -> RED
      [] n = CRITICAL -> BOLD \o MAGENTA
      [] OTHER -> GREEN

Spaces(k) == [j \in 1..k |-> " "]

\* a format spec that cuts the name to the width
LjustCut(name, w) ==
    IF Len(name) >= w THEN SubSeq(name, 1, w) ELSE name \o Spaces(w - Len(name))

\* f"{name:8}": left-justified in a field of at least w characters
Ljust(name, w) ==
    IF Len(name) >= w THEN name ELSE name \o Spaces(w - Len(name))

\* the block for stack_info as well
ExcBlockWithStack(r) ==
    IF r.exc_info \/ r.stack_info THEN <<"\n">> \o RED \o <<"exc_text">> \o RESET ELSE <<>>

\* lines 54-57: the exception, newline first, in red
ExcBlock(r) ==
    IF r.exc_info THEN <<"\n">> \o RED \o <<"exc_text">> \o RESET ELSE <<>>

\* lines 46-52: the colored line
ColoredLine(r) ==
    LET msg_color == LevelColor(r.levelno)
        colored_date == YELLOW \o <<"asctime">> \o RESET
        colored_location ==
            GRAY \o <<"[", "filename", ":", "lineno", "]">> \o RESET
        colored_level == msg_color \o Ljust(LevelName(r.levelno), LevelWidth) \o RESET
        colored_msg == msg_color \o <<"message">> \o RESET
    IN  colored_date \o <<" ">> \o colored_location \o <<" ">> \o colored_level
            \o <<" ", "-", " ">> \o colored_msg

\* ColoredFormatter.format; record.getMessage() raises when msg % args fails
ColoredFormat(r) ==
    IF ~r.msgOk THEN Raised ELSE ColoredLine(r) \o ExcBlock(r)

\* a handler is about to format a record
InitFmt ==
    /\ InitProv /\ rootHandlers = 1 /\ dirs = {}
    /\ handlers = [i \in Ids |-> <<>>]
    /\ RotIdle
    /\ rec \in Records
    /\ out = Unformatted

Format ==
    /\ out = Unformatted
    /\ out' = ColoredFormat(rec)
    /\ rec' = rec
    /\ UNCHANGED <<provVars, rotVars>>

NextFmt == Format

SpecFmt == InitFmt /\ [][NextFmt]_vars

GetLoggerStep(t) ==
    \/ CheckHandlers(t)
    \/ CheckDir(t)
    \/ MakeDirs(t)
    \/ AddConsole(t)
    \/ AddFile(t)
    \/ Return(t)

Next ==
    \/ \E t \in Threads, i \in Ids, a \in CallArgs : Call(t, i, a[1], a[2])
    \/ \E t \in Threads : GetLoggerStep(t)
    \/ \E i \in Ids : CallerSetLevel(i)
    \/ \E i \in Ids : CallerSetPropagate(i)

NextEmit ==
    \/ \E t \in Threads, i \in Ids : Call(t, i, LOG_DIR, DefaultBackupCount)
    \/ \E t \in Threads : GetLoggerStep(t)
    \/ \E i \in Ids, lv \in Levels : Emit(i, lv)

\* the root logger carries a handler, as after logging.basicConfig()
Init == InitProv /\ rootHandlers = 1 /\ RotIdle /\ FmtIdle

Spec == Init /\ [][Next]_vars

\* the root logger with and without a handler
InitEmit == InitProv /\ RotIdle /\ FmtIdle

SpecEmit == InitEmit /\ [][NextEmit]_vars

\* ------------------------------------------------------------------------
\* Claims about get_logger
\* ------------------------------------------------------------------------
Kinds(hs) == [k \in 1..Len(hs) |-> hs[k].kind]

Foreign(i) == CountKind(handlers[i], "foreign") > 0

\* the file handlers of logger i that were made with other arguments than
\* the call of thread t passes
OtherArgs(t, i) ==
    \E k \in 1..Len(handlers[i]) :
        /\ handlers[i][k].kind = "file"
        /\ handlers[i][k].dir # loc[t].dir
        /\ handlers[i][k].backupCount # loc[t].bc

\* C1: after one or more successful sequential get_logger calls for an
\* identity (none failed, none overlapped another call for it, and nothing
\* else had attached a handler to its logger), whatever log_dir and
\* backup_count they passed, the logger carries exactly two sinks, the
\* console sink and the file sink: a later call adds none.
C1_IdempotentAttach ==
    \A i \in Ids :
        (returned[i] > 0 /\ ~failed[i] /\ ~overlap[i] /\ ~Foreign(i))
            => Kinds(handlers[i]) = <<"console", "file">>

\* two sequential successful calls for one identity have returned, and a
\* third, with other arguments, has found the sinks and is at its return
C1_Witness ==
    \E i \in Ids, t \in Threads :
        /\ returned[i] = 2 /\ ~failed[i] /\ ~overlap[i] /\ ~Foreign(i)
        /\ pc[t] = "propagate" /\ loc[t].id = i /\ loc[t].found
        /\ OtherArgs(t, i)

\* C2: every logger get_logger returns carries exactly one console sink and
\* exactly one rotating file sink.
C2_ReturnedFullyConfigured ==
    \A t \in Threads :
        pc[t] = "propagate" =>
            /\ CountKind(handlers[loc[t].id], "console") = 1
            /\ CountKind(handlers[loc[t].id], "file") = 1

\* C3: in every interleaving of concurrent get_logger calls for one
\* identity the logger never has more than one console sink or more than
\* one file sink.
C3_NoDuplicateSinks ==
    \A i \in Ids :
        /\ CountKind(handlers[i], "console") <= 1
        /\ CountKind(handlers[i], "file") <= 1

\* C4: get_logger never fails because the log directory exists at the moment
\* it attempts to create it: a makedirs step that raises happens only with
\* the directory absent.
C4_ExistingDirTolerated ==
    [][\A t \in Threads :
          (pc[t] = "makedirs" /\ pc'[t] = "idle") => loc[t].dir \notin dirs]_vars

\* a step of get_logger in thread t
StepOf(t) == pc'[t] # pc[t]

\* thread t's call finds the logger already carrying sinks
FindsSinks(t) ==
    IF pc[t] = "idle" THEN handlers[loc'[t].id] # <<>> ELSE loc[t].found

\* C7 as stated: a get_logger call that finds the logger already carrying
\* sinks leaves the logger as it was: the sinks and their configuration, the
\* logger's threshold and its propagation flag are the same after every step
\* of the call.
C7_ReturnsUnchanged ==
    [][\A t \in Threads :
          (StepOf(t) /\ FindsSinks(t)) =>
              /\ handlers' = handlers
              /\ level' = level
              /\ propagate' = propagate]_vars

\* C7 amended: a get_logger call that finds the logger already carrying
\* sinks leaves the sinks and their configuration as they were, whatever
\* log_dir and backup_count it passes, but not the logger's own settings: it
\* sets the threshold to DEBUG as it begins and the propagation flag to False
\* as it returns.
C7_SinksKeptSettingsReset ==
    [][\A t \in Threads :
          (StepOf(t) /\ FindsSinks(t)) =>
              /\ handlers' = handlers
              /\ (pc[t] = "idle" => level'[loc'[t].id] = DEBUG)
              /\ (pc'[t] = "idle" => propagate'[loc[t].id] = FALSE)]_vars

\* a call with other arguments than the first found the sinks, after the
\* caller had set the propagation flag again, and is at its last statement
C7_Witness ==
    \E t \in Threads :
        /\ pc[t] = "propagate" /\ loc[t].found
        /\ returned[loc[t].id] > 0
        /\ propagate[loc[t].id]
        /\ OtherArgs(t, loc[t].id)

\* C10: every record emitted through a logger that get_logger returned is
\* handed exactly once to the console sink, exactly once to the file sink
\* and never to a handler of the root logger.
C10_ExactlyOnceDelivery ==
    lastEmit.id # "none" =>
        /\ lastEmit.console = 1
        /\ lastEmit.file = 1
        /\ lastEmit.root = 0

\* ------------------------------------------------------------------------
\* Claims about rotation and retention
\* ------------------------------------------------------------------------
RotatedCount(d) == Cardinality({k \in Days : rotated[d][k] # 0})

\* the files a directory listing shows: applog.log and its rotated siblings
Named ==
    ({base[d] : d \in Dirs} \cup {rotated[d][k] : d \in Dirs, k \in Days}) \ {0}

\* how many times record r stands in the files present
Occurrences(r) ==
    Cardinality({<<f, k>> \in Named \X (1..MaxRecords) :
                    k <= Len(content[f]) /\ content[f][k] = r})

\* record r was in, or went to, a file the retention policy deleted
Retired(r) ==
    \E f \in retired : \E k \in 1..Len(content[f]) : content[f][k] = r

\* C5: for every backup_count passed to get_logger, 0 included, the number
\* of rotated files in the sink's log directory never exceeds it.
C5_RetentionBound ==
    \A i \in Ids : RotatedCount(FileSink(i).dir) <= FileSink(i).backupCount

\* C6: every record emitted stands exactly once in applog.log and its
\* rotated siblings, until retention deletes its file; also when the sinks
\* of two identities write to and rotate the same applog.log.
C6_NoRecordLostOrDuplicated ==
    \A r \in 1..nrec : Retired(r) \/ Occurrences(r) = 1

\* ------------------------------------------------------------------------
\* Claims about ColoredFormatter.format
\* ------------------------------------------------------------------------
Newlines(s) == {k \in 1..Len(s) : s[k] = "\n"}

\* the output up to its first newline, and the rest
FirstLine(s) ==
    IF Newlines(s) = {} THEN s
    ELSE SubSeq(s, 1, (CHOOSE k \in Newlines(s) : \A j \in Newlines(s) : k <= j) - 1)

Trailer(s) == SubSeq(s, Len(FirstLine(s)) + 1, Len(s))

\* the ColorMap of the reference layout; INFO's style for any other level
RefStyle(n) ==
    CASE n = 10 -> <<"ESC[96m">>
      [] n = 20 -> <<"ESC[92m">>
      [] n = 30 -> <<"ESC[93m">>
      [] n = 40 -> <<"ESC[91m">>
      [] n = 50 -> <<"ESC[1m", "ESC[95m">>
      [] OTHER -> <<"ESC[92m">>

\* <yellow>date<reset> <gray>[filename:line]<reset> <c>LEVEL<reset> - <c>message<reset>
RefLine(n, lvl) ==
    <<"ESC[93m", "asctime", "ESC[0m", " ",
      "ESC[90m", "[", "filename", ":", "lineno", "]", "ESC[0m", " ">>
        \o RefStyle(n) \o lvl \o <<"ESC[0m", " ", "-", " ">>
        \o RefStyle(n) \o <<"message", "ESC[0m">>

\* the name in exactly 8 characters: padded, or cut
Exactly8(name) == [k \in 1..8 |-> IF k <= Len(name) THEN name[k] ELSE " "]

\* the name whole, padded to 8 characters when shorter
AtLeast8(name) ==
    [k \in 1..(IF Len(name) > 8 THEN Len(name) ELSE 8) |->
        IF k <= Len(name) THEN name[k] ELSE " "]

\* C8 as stated: for every valid record (one whose message can be formed
\* from msg and args) format does not fail, and its first line is the
\* reference layout with the level's style (INFO's for an unrecognized
\* level) and the level name padded or truncated to exactly 8 characters.
C8_TotalExactWidth ==
    (out # Unformatted /\ rec.msgOk) =>
        /\ out # Raised
        /\ FirstLine(out) = RefLine(rec.levelno, Exactly8(LevelName(rec.levelno)))

\* C8 amended: for every valid record format does not fail, and its first
\* line is the reference layout with the level's style (INFO's for an
\* unrecognized level) and the level name left-justified and padded to at
\* least 8 characters, never truncated: a longer name stands whole. (A record
\* whose message cannot be formed makes getMessage, and so format, raise.)
C8_LayoutPaddedNotCut ==
    out # Unformatted =>
        IF rec.msgOk
        THEN FirstLine(out) = RefLine(rec.levelno, AtLeast8(LevelName(rec.levelno)))
        ELSE out = Raised

\* a level with a 9-character name has been formatted, the name whole
C8_Witness ==
    /\ rec.levelno = 100 /\ rec.msgOk
    /\ out # Unformatted
    /\ FirstLine(out) = RefLine(100, <<"L", "e", "v", "e", "l", " ", "1", "0", "0">>)

\* C9 as stated: the output has a trailing block exactly when the record
\* carries exception info or stack info, and the block is a newline and the
\* captured text between the red code and the reset code.
C9_TrailerForExcOrStack ==
    (out # Unformatted /\ out # Raised) =>
        /\ Trailer(out) # <<>> <=> (rec.exc_info \/ rec.stack_info)
        /\ Trailer(out) # <<>> =>
               /\ SubSeq(Trailer(out), 1, 2) = <<"\n", "ESC[91m">>
               /\ Trailer(out)[Len(Trailer(out))] = "ESC[0m"

\* C9 amended: the output has a trailing block exactly when the record
\* carries exception info: then it is the first line, a newline, and the
\* formatted exception between the red code and the reset code. A record
\* without exception info gives the first line alone, also when it carries
\* stack info, which format does not render.
C9_TrailerForExcOnly ==
    (out # Unformatted /\ out # Raised) =>
        Trailer(out) = IF rec.exc_info
                       THEN <<"\n", "ESC[91m", "exc_text", "ESC[0m">>
                       ELSE <<>>

\* a record with stack info and no exception info was formatted, and one
\* line came out
C9_Witness ==
    /\ rec.stack_info /\ ~rec.exc_info /\ rec.msgOk
    /\ out # Unformatted
    /\ Trailer(out) = <<>>
    /\ out = FirstLine(out)

====
